---------------------------- MODULE Spec2Model ----------------------------
(***************************************************************************)
(* SystemHealthMonitor (src/system_health_monitor.py).                     *)
(*                                                                         *)
(* One run of run_all_checks: ten collectors/checkers called in a fixed    *)
(* order, each an atomic step, followed by show_health_report.  Every      *)
(* value a handler reads from the operating system (psutil, GPUtil, wmi,   *)
(* platform) is an input chosen nondeterministically from a small set that *)
(* straddles the handler's thresholds; a query may also raise.  An         *)
(* exception that no handler catches unwinds run_all_checks and ends the   *)
(* process: pc = "aborted".                                                *)
(*                                                                         *)
(* Units.  Percentages that psutil reports with one decimal are kept in    *)
(* tenths of a percent (85.1% is 851).  Byte counts are kept in MiB, so    *)
(* that "total / 1024**3 < N" is "total_mib < N * 1024".  Strings that the *)
(* code parses are sequences of one-character strings.                     *)
(***************************************************************************)
EXTENDS Integers, Sequences, FiniteSets

VARIABLES
    platform_system,  \* platform.system(), fixed for the process
    pc,               \* the next call of run_all_checks, or "done"/"aborted"
    health_score,     \* self.health_score
    prev_score,       \* self.health_score when the last handler was entered
    warnings,         \* the threshold warnings logged so far, in order
    reading,          \* what the last handler read from the OS and what it did
    upgrade,          \* what check_upgrade_compatibility decided and reported
    report            \* what show_health_report printed

vars == <<platform_system, pc, health_score, prev_score, warnings, reading,
          upgrade, report>>

-----------------------------------------------------------------------------
(* Bounds of the model *)

MaxParts == 4
MaxGpus == 2

-----------------------------------------------------------------------------
(* Program constants *)

INITIAL_SCORE == 100
CPU_TEMP_LIMIT == 85
CPU_TEMP_PENALTY == 15
CPU_USAGE_LIMIT == 85
CPU_USAGE_PENALTY == 10
RAM_USAGE_LIMIT == 85
RAM_PENALTY == 10
DISK_USAGE_LIMIT == 90
DISK_PENALTY == 10
BATTERY_LOW_LIMIT == 30
BATTERY_PENALTY == 10
GPU_LOAD_LIMIT == 90
GPU_TEMP_LIMIT == 85
GPU_PENALTY == 10
WIN11_BUILD == 22000
GOOD_SCORE == 80
ATTENTION_SCORE == 50
MIB_PER_GIB == 1024

-----------------------------------------------------------------------------
(* Generic helpers *)

SeqsUpTo(S, n) == UNION {[1..k -> S] : k \in 0..n}

RECURSIVE SumSeq(_)
SumSeq(s) == IF s = <<>> THEN 0 ELSE Head(s) + SumSeq(Tail(s))

RECURSIVE ConcatAll(_)
ConcatAll(ss) == IF ss = <<>> THEN <<>> ELSE Head(ss) \o ConcatAll(Tail(ss))

-----------------------------------------------------------------------------
(* The shared score: every threshold breach logs one warning and deducts  *)
(* that breach's penalty from self.health_score.                          *)

WarningKinds == {"cpu_temp", "cpu_usage", "ram", "disk", "battery", "gpu"}

\* mutation: the temperature breach deducts the usage penalty
Deduction_TempAsUsage(kind) ==
    IF kind = "cpu_temp" THEN CPU_USAGE_PENALTY
    ELSE IF kind = "disk" THEN DISK_PENALTY
    ELSE IF kind = "gpu" THEN GPU_PENALTY
    ELSE IF kind = "ram" THEN RAM_PENALTY
    ELSE IF kind = "battery" THEN BATTERY_PENALTY
    ELSE CPU_USAGE_PENALTY

\* mutation: the RAM breach is written "+=" instead of "-="
Deduction_RamAdded(kind) ==
    IF kind = "ram" THEN 0 - RAM_PENALTY
    ELSE IF kind = "cpu_temp" THEN CPU_TEMP_PENALTY
    ELSE IF kind = "disk" THEN DISK_PENALTY
    ELSE IF kind = "gpu" THEN GPU_PENALTY
    ELSE IF kind = "battery" THEN BATTERY_PENALTY
    ELSE CPU_USAGE_PENALTY

\* the amount of each "self.health_score -= n"
Deduction(kind) ==
    CASE kind = "cpu_temp"  -> CPU_TEMP_PENALTY
      [] kind = "cpu_usage" -> CPU_USAGE_PENALTY
      [] kind = "ram"       -> RAM_PENALTY
      [] kind = "disk"      -> DISK_PENALTY
      [] kind = "battery"   -> BATTERY_PENALTY
      [] kind = "gpu"       -> GPU_PENALTY

TotalDeduction(breaches) == SumSeq([i \in 1..Len(breaches) |-> Deduction(breaches[i])])

\* a handler that returns normally to run_all_checks, having found `breaches`
Returns(step, next, q, raised, breaches) ==
    /\ pc' = next
    /\ prev_score' = health_score
    /\ health_score' = health_score - TotalDeduction(breaches)
    /\ warnings' = warnings \o breaches
    /\ reading' = [step |-> step, q |-> q, raised |-> raised]

\* a handler out of which an exception propagates: run_all_checks unwinds
Propagates(step, q) ==
    /\ pc' = "aborted"
    /\ prev_score' = health_score
    /\ reading' = [step |-> step, q |-> q, raised |-> TRUE]
    /\ UNCHANGED <<health_score, warnings>>

-----------------------------------------------------------------------------
(* get_system_info: platform.* and datetime.now() only; prints.           *)

get_system_info ==
    /\ pc = "system_info"
    /\ Returns("system_info", "windows_update", "info", FALSE, <<>>)
    /\ UNCHANGED <<platform_system, upgrade, report>>

-----------------------------------------------------------------------------
(* get_last_windows_update: Windows only; the PowerShell query is wrapped *)
(* in try/except Exception.                                               *)

UpdateQueries == {"found", "empty", "CalledProcessError", "Exception"}

get_last_windows_update ==
    /\ pc = "windows_update"
    /\ IF platform_system # "Windows"
         THEN Returns("windows_update", "cpu", "unsupported", FALSE, <<>>)
         ELSE \E q \in UpdateQueries :
                Returns("windows_update", "cpu", q,
                        q \in {"CalledProcessError", "Exception"}, <<>>)
    /\ UNCHANGED <<platform_system, upgrade, report>>

-----------------------------------------------------------------------------
(* get_cpu_info.  usage: cpu_percent in tenths of a percent.  freq_ok:    *)
(* whether cpu_freq() returned an object (it returns None when the        *)
(* platform gives no frequency).  temp: "unsupported" when psutil has no  *)
(* sensors_temperatures, "absent" when there is no 'coretemp' entry,      *)
(* "raise" when the sensor query or temps['coretemp'][0] raises, "value"  *)
(* with the first core's reading in degrees.                              *)

CpuUsages == {CPU_USAGE_LIMIT * 10, CPU_USAGE_LIMIT * 10 + 1}
CpuTemps ==
    {[kind |-> k, val |-> 0] : k \in {"unsupported", "absent", "raise"}}
    \cup {[kind |-> "value", val |-> v] : v \in {CPU_TEMP_LIMIT, CPU_TEMP_LIMIT + 1}}
\* the sensors are not read once freq.max has raised
CpuQueries ==
    {[usage |-> u, freq_ok |-> FALSE, temp |-> [kind |-> "unread", val |-> 0]] :
        u \in CpuUsages}
    \cup [usage : CpuUsages, freq_ok : {TRUE}, temp : CpuTemps]

\* the except clause at the end of get_cpu_info is entered
CpuRaises(q) == ~q.freq_ok \/ q.temp.kind = "raise"

\* freq is dereferenced (freq.max) before either threshold is looked at
CpuBreaches(q) ==
    IF ~q.freq_ok THEN <<>>
    ELSE IF q.temp.kind = "raise" THEN <<>>
    ELSE (IF q.temp.kind = "value" /\ q.temp.val > CPU_TEMP_LIMIT
            THEN <<"cpu_temp">> ELSE <<>>)
         \o (IF q.usage > CPU_USAGE_LIMIT * 10 THEN <<"cpu_usage">> ELSE <<>>)

get_cpu_info ==
    /\ pc = "cpu"
    /\ \E q \in CpuQueries :
         Returns("cpu", "ram", q, CpuRaises(q), CpuBreaches(q))
    /\ UNCHANGED <<platform_system, upgrade, report>>

-----------------------------------------------------------------------------
(* get_ram_info: virtual_memory().percent in tenths of a percent.         *)

RamQueries ==
    {[ok |-> FALSE, percent |-> 0]}
    \cup {[ok |-> TRUE, percent |-> p] :
            p \in {RAM_USAGE_LIMIT * 10, RAM_USAGE_LIMIT * 10 + 1}}

RamBreaches(q) ==
    IF q.ok /\ q.percent > RAM_USAGE_LIMIT * 10 THEN <<"ram">> ELSE <<>>

get_ram_info ==
    /\ pc = "ram"
    /\ \E q \in RamQueries :
         Returns("ram", "disk", q, ~q.ok, RamBreaches(q))
    /\ UNCHANGED <<platform_system, upgrade, report>>

-----------------------------------------------------------------------------
(* get_disk_info.  disk_partitions() is called outside any try; each      *)
(* partition's disk_usage is inside one: "ok" with the usage percent in   *)
(* tenths, "denied" for PermissionError, "error" for any other exception. *)

PartitionQueries ==
    {[kind |-> "ok", percent |-> p] :
        p \in {DISK_USAGE_LIMIT * 10, DISK_USAGE_LIMIT * 10 + 1}}
    \cup {[kind |-> k, percent |-> 0] : k \in {"denied", "error"}}

DiskQueries ==
    {[ok |-> FALSE, parts |-> <<>>]}
    \cup {[ok |-> TRUE, parts |-> ps] : ps \in SeqsUpTo(PartitionQueries, MaxParts)}

PartitionBreaches(p) ==
    IF p.kind = "ok" /\ p.percent > DISK_USAGE_LIMIT * 10 THEN <<"disk">> ELSE <<>>

\* mutation: the try encloses the whole loop, so the first PermissionError
\* ends the enumeration
DiskBreaches_StopAtDenied(parts) ==
    LET denied == {i \in 1..Len(parts) : parts[i].kind = "denied"}
        last   == IF denied = {} THEN Len(parts)
                  ELSE (CHOOSE i \in denied : \A j \in denied : i <= j) - 1
    IN  ConcatAll([i \in 1..last |-> PartitionBreaches(parts[i])])

\* mutation: one deduction for the whole disk check, however many are full
DiskBreaches_Capped(parts) ==
    IF \E i \in 1..Len(parts) : PartitionBreaches(parts[i]) # <<>>
      THEN <<"disk">> ELSE <<>>

\* the for loop: one iteration per partition, in enumeration order
DiskBreaches(parts) ==
    ConcatAll([i \in 1..Len(parts) |-> PartitionBreaches(parts[i])])

DiskRaised(parts) == \E i \in 1..Len(parts) : parts[i].kind \in {"denied", "error"}

get_disk_info ==
    /\ pc = "disk"
    /\ \E q \in DiskQueries :
         IF ~q.ok
           THEN Propagates("disk", q)
           ELSE Returns("disk", "battery", q, DiskRaised(q.parts), DiskBreaches(q.parts))
    /\ UNCHANGED <<platform_system, upgrade, report>>

-----------------------------------------------------------------------------
(* get_battery_info: no try at all.  sensors_battery() returns None when  *)
(* there is no battery; power_plugged is True, False or None (unknown).   *)

BatteryQueries ==
    {[kind |-> k, percent |-> 0, power_plugged |-> "None"] : k \in {"raise", "absent"}}
    \cup {[kind |-> "present", percent |-> p, power_plugged |-> g] :
            p \in {BATTERY_LOW_LIMIT - 1, BATTERY_LOW_LIMIT},
            g \in {"True", "False", "None"}}

\* Python truth value of battery.power_plugged
Truthy(g) == g = "True"

\* mutation: the "and not battery.power_plugged" conjunct is dropped
BatteryBreaches_IgnoresPlug(q) ==
    IF q.kind = "present" /\ q.percent < BATTERY_LOW_LIMIT
      THEN <<"battery">> ELSE <<>>

BatteryBreaches(q) ==
    IF q.kind = "present" /\ q.percent < BATTERY_LOW_LIMIT /\ ~Truthy(q.power_plugged)
      THEN <<"battery">> ELSE <<>>

get_battery_info ==
    /\ pc = "battery"
    /\ \E q \in BatteryQueries :
         IF q.kind = "raise"
           THEN Propagates("battery", q)
           ELSE Returns("battery", "gpu", q, FALSE, BatteryBreaches(q))
    /\ UNCHANGED <<platform_system, upgrade, report>>

-----------------------------------------------------------------------------
(* get_gpu_info and _fallback_gpu_detection.  load_percent is gpu.load *  *)
(* 100 (GPUtil divides nvidia-smi's whole percent by 100; for the values  *)
(* used here the product is exact in IEEE doubles).                       *)

GpuReadings ==
    [load_percent : {GPU_LOAD_LIMIT, GPU_LOAD_LIMIT + 1},
     temperature : {GPU_TEMP_LIMIT, GPU_TEMP_LIMIT + 1}]

GpuQueries ==
    {[ok |-> FALSE, gpus |-> <<>>]}
    \cup {[ok |-> TRUE, gpus |-> gs] : gs \in SeqsUpTo(GpuReadings, MaxGpus)}

\* mutation: the "or gpu.temperature > 85" disjunct is dropped
GpuBreach_LoadOnly(g) ==
    IF g.load_percent > GPU_LOAD_LIMIT THEN <<"gpu">> ELSE <<>>

GpuBreach(g) ==
    IF g.load_percent > GPU_LOAD_LIMIT \/ g.temperature > GPU_TEMP_LIMIT
      THEN <<"gpu">> ELSE <<>>

GpuBreaches(gpus) == ConcatAll([i \in 1..Len(gpus) |-> GpuBreach(gpus[i])])

\* "if gpus: ... else: fallback" and "except Exception: ... fallback"
FallbackTaken(q) == ~q.ok \/ q.gpus = <<>>

\* _fallback_gpu_detection: everything inside try/except, prints only
FallbackOutcomes ==
    IF platform_system = "Windows" THEN {"listed", "nothing", "raise"}
                                   ELSE {"unavailable"}

get_gpu_info ==
    /\ pc = "gpu"
    /\ \E q \in GpuQueries :
         \E f \in (IF FallbackTaken(q) THEN FallbackOutcomes ELSE {"not_taken"}) :
           Returns("gpu", "network", [gpu |-> q, fallback |-> f],
                   ~q.ok \/ f = "raise", GpuBreaches(q.gpus))
    /\ UNCHANGED <<platform_system, upgrade, report>>

-----------------------------------------------------------------------------
(* get_network_info and get_advanced_hardware_info: informational, each   *)
(* wholly inside try/except Exception.                                    *)

get_network_info ==
    /\ pc = "network"
    /\ \E q \in {"listed", "raise"} :
         Returns("network", "hardware", q, q = "raise", <<>>)
    /\ UNCHANGED <<platform_system, upgrade, report>>

get_advanced_hardware_info ==
    /\ pc = "hardware"
    /\ IF platform_system # "Windows"
         THEN Returns("hardware", "upgrade", "unsupported", FALSE, <<>>)
         ELSE \E q \in {"listed", "raise"} :
                Returns("hardware", "upgrade", q, q = "raise", <<>>)
    /\ UNCHANGED <<platform_system, upgrade, report>>

-----------------------------------------------------------------------------
(* String handling of check_upgrade_compatibility: str.split('.'), int()  *)
(* and the substring test '2.0' in tpm_version.                           *)

DigitChars == <<"0", "1", "2", "3", "4", "5", "6", "7", "8", "9">>

IsDigit(c) == \E i \in 1..Len(DigitChars) : DigitChars[i] = c

DigitVal(c) == (CHOOSE i \in 1..Len(DigitChars) : DigitChars[i] = c) - 1

RECURSIVE DigitsValue(_)
DigitsValue(s) ==
    IF s = <<>> THEN 0
    ELSE DigitsValue(SubSeq(s, 1, Len(s) - 1)) * 10 + DigitVal(s[Len(s)])

\* int(s) for an unsigned decimal literal; anything else is a ValueError
IntParse(s) ==
    IF s # <<>> /\ \A i \in 1..Len(s) : IsDigit(s[i])
      THEN [ok |-> TRUE, val |-> DigitsValue(s)]
      ELSE [ok |-> FALSE, val |-> 0]

RECURSIVE Split(_, _)
Split(s, sep) ==
    IF \E i \in 1..Len(s) : s[i] = sep
      THEN LET i == CHOOSE k \in 1..Len(s) :
                      s[k] = sep /\ \A j \in 1..(k - 1) : s[j] # sep
           IN  <<SubSeq(s, 1, i - 1)>> \o Split(SubSeq(s, i + 1, Len(s)), sep)
      ELSE <<s>>

Contains(sub, s) ==
    \E i \in 0..(Len(s) - Len(sub)) : SubSeq(s, i + 1, i + Len(sub)) = sub

-----------------------------------------------------------------------------
(* check_upgrade_compatibility: what it reads.                            *)

\* platform.release() on Windows
Releases ==
    { <<"7">>, <<"8">>, <<"8", ".", "1">>, <<"1", "0">>, <<"1", "1">>,
      <<"V", "i", "s", "t", "a">> }

\* platform.version() on Windows 10 and 11: "10.0.<build>"
Versions ==
    { <<"1", "0", ".", "0", ".", "1", "9", "0", "4", "5">>,
      <<"1", "0", ".", "0", ".", "2", "2", "0", "0", "0">> }

\* psutil.cpu_count(logical=True) and psutil.cpu_freq().current (MHz)
UpCpuQueries ==
    {[ok |-> FALSE, cores |-> 0, freq |-> 0]}
    \cup {[ok |-> TRUE, cores |-> c, freq |-> f] : c \in {1, 2}, f \in {999, 1000}}

\* psutil.virtual_memory().total, in MiB
UpRamQueries ==
    {[ok |-> FALSE, total_mib |-> 0]}
    \cup {[ok |-> TRUE, total_mib |-> m] :
            m \in {2 * MIB_PER_GIB - 1, 2 * MIB_PER_GIB,
                   4 * MIB_PER_GIB - 1, 4 * MIB_PER_GIB}}

\* psutil.disk_usage('C:\\').total, in MiB
UpDiskQueries ==
    {[ok |-> FALSE, total_mib |-> 0]}
    \cup {[ok |-> TRUE, total_mib |-> m] :
            m \in {40 * MIB_PER_GIB - 1, 40 * MIB_PER_GIB,
                   64 * MIB_PER_GIB - 1, 64 * MIB_PER_GIB}}

\* Win32_Tpm()[0].SpecVersion: no TPM instance (raise), None, or a string
TpmVersions ==
    { [kind |-> "raise", ver |-> <<>>],
      [kind |-> "None", ver |-> <<>>],
      [kind |-> "str", ver |-> <<"1", ".", "2">>],
      [kind |-> "str", ver |-> <<"2", ".", "0", ",", " ", "0">>] }

\* wmi.WMI(), then Win32_OperatingSystem()[0].SecureBoot, then Win32_Tpm();
\* what is not reached because an earlier query raised is left at its default
FwNotQueried == [wmi_ok |-> FALSE, secure_boot |-> "not_queried",
                 tpm |-> [kind |-> "not_queried", ver |-> <<>>]]

FwQueries ==
    { [wmi_ok |-> FALSE, secure_boot |-> "raise",
       tpm |-> [kind |-> "not_queried", ver |-> <<>>]],
      [wmi_ok |-> TRUE, secure_boot |-> "raise",
       tpm |-> [kind |-> "not_queried", ver |-> <<>>]] }
    \cup {[wmi_ok |-> TRUE, secure_boot |-> b, tpm |-> t] :
            b \in {"True", "False"}, t \in TpmVersions}

-----------------------------------------------------------------------------
(* check_upgrade_compatibility: the dispatch on the major version.        *)

Requirements78 ==
    [CPU_CORES |-> 1, CPU_FREQ |-> 1000, RAM_GB |-> 2, DISK_GB |-> 40]

Requirements11 ==
    [CPU_CORES |-> 2, CPU_FREQ |-> 1000, RAM_GB |-> 4, DISK_GB |-> 64,
     TPM_2 |-> TRUE, SECURE_BOOT |-> TRUE]

NoRequirements == [CPU_CORES |-> 0, CPU_FREQ |-> 0, RAM_GB |-> 0, DISK_GB |-> 0]

\* mutation: "build_number > 22000" for ">="
Dispatch_BuildStrict(major, build) ==
    IF major = 7
      THEN [outcome |-> "checked", target |-> "Windows 8.1",
            requirements |-> Requirements78]
    ELSE IF major = 8
      THEN [outcome |-> "checked", target |-> "Windows 10",
            requirements |-> Requirements78]
    ELSE IF major = 10
      THEN IF build > WIN11_BUILD
             THEN [outcome |-> "already_upgraded", target |-> "none",
                   requirements |-> NoRequirements]
             ELSE [outcome |-> "checked", target |-> "Windows 11",
                   requirements |-> Requirements11]
    ELSE [outcome |-> "no_path", target |-> "none",
          requirements |-> NoRequirements]

\* build is read only when major = 10
Dispatch(major, build) ==
    IF major = 7
      THEN [outcome |-> "checked", target |-> "Windows 8.1",
            requirements |-> Requirements78]
    ELSE IF major = 8
      THEN [outcome |-> "checked", target |-> "Windows 10",
            requirements |-> Requirements78]
    ELSE IF major = 10
      THEN IF build >= WIN11_BUILD
             THEN [outcome |-> "already_upgraded", target |-> "none",
                   requirements |-> NoRequirements]
             ELSE [outcome |-> "checked", target |-> "Windows 11",
                   requirements |-> Requirements11]
    ELSE [outcome |-> "no_path", target |-> "none",
          requirements |-> NoRequirements]

-----------------------------------------------------------------------------
(* check_upgrade_compatibility: the requirement checks.  Each yields      *)
(* "passed" or "failed" (the two lines it prints), "error" (the line of   *)
(* its except clause) or "not_evaluated" (nothing was printed for it).    *)

CheckCpu(req, q) ==
    IF ~q.ok THEN "error"
    ELSE IF q.cores < req.CPU_CORES \/ q.freq < req.CPU_FREQ THEN "failed"
    ELSE "passed"

CheckRam(req, q) ==
    IF ~q.ok THEN "error"
    ELSE IF q.total_mib < req.RAM_GB * MIB_PER_GIB THEN "failed"
    ELSE "passed"

CheckStorage(req, q) ==
    IF ~q.ok THEN "error"
    ELSE IF q.total_mib < req.DISK_GB * MIB_PER_GIB THEN "failed"
    ELSE "passed"

\* Secure Boot and TPM share one try block (Windows 11 only).  The block's
\* single except line is attributed to the first check that did not finish.
CheckSecureBoot(target, fw) ==
    IF target # "Windows 11" THEN "not_evaluated"
    ELSE IF ~fw.wmi_ok \/ fw.secure_boot = "raise" THEN "error"
    ELSE IF fw.secure_boot = "True" THEN "passed"
    ELSE "failed"

IsTpm20(tpm) == IF tpm.kind = "str" THEN Contains(<<"2", ".", "0">>, tpm.ver) ELSE FALSE

CheckTpm(target, fw) ==
    IF target # "Windows 11" THEN "not_evaluated"
    ELSE IF ~fw.wmi_ok \/ fw.secure_boot = "raise" THEN "not_evaluated"
    ELSE IF fw.tpm.kind = "raise" THEN "error"
    ELSE IF IsTpm20(fw.tpm) THEN "passed"
    ELSE "failed"

\* mutation: the except clauses do not set compatible = False
AfterCheck_ErrorSkipped(compatible, result) ==
    IF result = "failed" THEN FALSE ELSE compatible

\* "compatible = False" in the failing branch and in the except clause
AfterCheck(compatible, result) ==
    IF result \in {"failed", "error"} THEN FALSE ELSE compatible

CheckNames == <<"CPU", "RAM", "DISK", "SECURE_BOOT", "TPM">>

NoResults == [c \in {"CPU", "RAM", "DISK", "SECURE_BOOT", "TPM"} |-> "not_evaluated"]

RunChecks(d, cpu, ram, disk, fw) ==
    [CPU         |-> CheckCpu(d.requirements, cpu),
     RAM         |-> CheckRam(d.requirements, ram),
     DISK        |-> CheckStorage(d.requirements, disk),
     SECURE_BOOT |-> CheckSecureBoot(d.target, fw),
     TPM         |-> CheckTpm(d.target, fw)]

RECURSIVE FoldChecks(_, _, _)
FoldChecks(compatible, results, i) ==
    IF i > Len(CheckNames) THEN compatible
    ELSE FoldChecks(AfterCheck(compatible, results[CheckNames[i]]), results, i + 1)

\* "compatible = True", then the checks in order, then the final result
Verdict(results) ==
    IF FoldChecks(TRUE, results, 1) THEN "compatible" ELSE "not_compatible"

UpgradeNotRun ==
    [outcome |-> "not_run", target |-> "none", requirements |-> NoRequirements,
     results |-> NoResults, verdict |-> "none"]

\* CpuQ, RamQ, DiskQ, FwQ: the sets the four hardware queries answer from
check_upgrade_compatibility(CpuQ, RamQ, DiskQ, FwQ) ==
    /\ pc = "upgrade"
    /\ UNCHANGED <<platform_system, report>>
    /\ IF platform_system # "Windows"
         THEN /\ Returns("upgrade", "report", "not_windows", FALSE, <<>>)
              /\ upgrade' = [UpgradeNotRun EXCEPT !.outcome = "not_applicable"]
         ELSE \E release \in Releases :
           LET major == IntParse(Split(release, ".")[1]) IN
           IF ~major.ok
             THEN /\ Propagates("upgrade", [release |-> release])
                  /\ UNCHANGED upgrade
             ELSE \E version \in (IF major.val = 10 THEN Versions ELSE {<<>>}) :
               LET parts == Split(version, ".")
                   build == IF major.val # 10 THEN [ok |-> TRUE, val |-> 0]
                            ELSE IF Len(parts) < 3 THEN [ok |-> FALSE, val |-> 0]
                            ELSE IntParse(parts[3])
                   d     == Dispatch(major.val, build.val)
               IN
               IF ~build.ok
                 THEN /\ Propagates("upgrade", [release |-> release, version |-> version])
                      /\ UNCHANGED upgrade
               ELSE IF d.outcome # "checked"
                 THEN /\ Returns("upgrade", "report",
                                 [release |-> release, version |-> version],
                                 FALSE, <<>>)
                      /\ upgrade' = [UpgradeNotRun EXCEPT !.outcome = d.outcome]
               ELSE \E cpu \in CpuQ, ram \in RamQ, disk \in DiskQ,
                       fw \in (IF d.target = "Windows 11" THEN FwQ
                                                          ELSE {FwNotQueried}) :
                      LET results == RunChecks(d, cpu, ram, disk, fw) IN
                      /\ Returns("upgrade", "report",
                                 [release |-> release, version |-> version,
                                  cpu |-> cpu, ram |-> ram, disk |-> disk, fw |-> fw],
                                 \E c \in DOMAIN results : results[c] = "error", <<>>)
                      /\ upgrade' = [outcome |-> "checked", target |-> d.target,
                                     requirements |-> d.requirements,
                                     results |-> results, verdict |-> Verdict(results)]

-----------------------------------------------------------------------------
(* show_health_report: colour and message are two separate conditional    *)
(* expressions over self.health_score.                                    *)

ColorOf(score) ==
    IF score >= GOOD_SCORE THEN "GREEN"
    ELSE IF score >= ATTENTION_SCORE THEN "YELLOW"
    ELSE "RED"

\* mutation: the message's second band starts above 50, the colour's at 50
MessageOf_StrictAttention(score) ==
    IF score >= GOOD_SCORE THEN "The system is in good condition."
    ELSE IF score > ATTENTION_SCORE THEN "Some areas need attention."
    ELSE "The system is in poor condition. Professional inspection is recommended."

MessageOf(score) ==
    IF score >= GOOD_SCORE THEN "The system is in good condition."
    ELSE IF score >= ATTENTION_SCORE THEN "Some areas need attention."
    ELSE "The system is in poor condition. Professional inspection is recommended."

ReportNotShown == [shown |-> FALSE, score |-> 0, color |-> "none", message |-> "none"]

show_health_report ==
    /\ pc = "report"
    /\ Returns("report", "done", "none", FALSE, <<>>)
    /\ report' = [shown |-> TRUE, score |-> health_score,
                  color |-> ColorOf(health_score), message |-> MessageOf(health_score)]
    /\ UNCHANGED <<platform_system, upgrade>>

-----------------------------------------------------------------------------
(* __init__ and run_all_checks *)

Init ==
    /\ platform_system \in {"Windows", "Linux"}
    /\ pc = "system_info"
    /\ health_score = INITIAL_SCORE
    /\ prev_score = INITIAL_SCORE
    /\ warnings = <<>>
    /\ reading = [step |-> "init", q |-> "none", raised |-> FALSE]
    /\ upgrade = UpgradeNotRun
    /\ report = ReportNotShown

\* One full run.  The upgrade checker's four hardware queries answer from
\* one failing and one sufficient machine; UpgradeSpec below draws them from
\* the sets that straddle every requirement.
RunCpuQueries == {q \in UpCpuQueries : ~q.ok \/ (q.cores = 2 /\ q.freq = 1000)}
RunRamQueries == {q \in UpRamQueries : q.ok /\ q.total_mib = 4 * MIB_PER_GIB}
RunDiskQueries == {q \in UpDiskQueries : q.ok /\ q.total_mib = 64 * MIB_PER_GIB}
RunFwQueries ==
    {q \in FwQueries : ~q.wmi_ok \/ (q.secure_boot = "True" /\ IsTpm20(q.tpm))}

Next ==
    \/ get_system_info
    \/ get_last_windows_update
    \/ get_cpu_info
    \/ get_ram_info
    \/ get_disk_info
    \/ get_battery_info
    \/ get_gpu_info
    \/ get_network_info
    \/ get_advanced_hardware_info
    \/ check_upgrade_compatibility(RunCpuQueries, RunRamQueries, RunDiskQueries,
                                   RunFwQueries)
    \/ show_health_report

Spec == Init /\ [][Next]_vars

-----------------------------------------------------------------------------
(* The upgrade checker on its own: the run has come to the call of        *)
(* check_upgrade_compatibility with no threshold breached, and the        *)
(* hardware queries answer from the full sets.                            *)

UpgradeInit ==
    /\ platform_system \in {"Windows", "Linux"}
    /\ pc = "upgrade"
    /\ health_score = INITIAL_SCORE
    /\ prev_score = INITIAL_SCORE
    /\ warnings = <<>>
    /\ reading = [step |-> "hardware",
                  q |-> IF platform_system = "Windows" THEN "listed" ELSE "unsupported",
                  raised |-> FALSE]
    /\ upgrade = UpgradeNotRun
    /\ report = ReportNotShown

UpgradeNext ==
    \/ check_upgrade_compatibility(UpCpuQueries, UpRamQueries, UpDiskQueries, FwQueries)
    \/ show_health_report

UpgradeSpec == UpgradeInit /\ [][UpgradeNext]_vars

-----------------------------------------------------------------------------
(* Properties of one run (Spec)                                           *)

CountOf(kind, log) == Cardinality({i \in 1..Len(log) : log[i] = kind})

\* the penalty the specification attaches to each threshold warning
StatedPenalty(kind) ==
    CASE kind = "cpu_usage" -> 10
      [] kind = "cpu_temp"  -> 15
      [] kind = "ram"       -> 10
      [] kind = "disk"      -> 10
      [] kind = "battery"   -> 10
      [] kind = "gpu"       -> 10

StatedPenalties(log) == SumSeq([i \in 1..Len(log) |-> StatedPenalty(log[i])])

\* what the last handler took off the score
Decrease == prev_score - health_score

\* C1: the score starts at 100, never increases, never exceeds 100, and the
\* value show_health_report reads is 100 minus the penalties of the warnings
\* emitted in the run.
C1_ScoreIsHundredMinusPenalties ==
    /\ pc = "system_info" => health_score = 100
    /\ health_score <= prev_score
    /\ prev_score <= 100
    /\ health_score = 100 - StatedPenalties(warnings)
    /\ report.shown => report.score = 100 - StatedPenalties(warnings)

C1_Witness ==
    /\ report.shown
    /\ CountOf("cpu_temp", warnings) = 1
    /\ CountOf("cpu_usage", warnings) = 1
    /\ CountOf("disk", warnings) = 2
    /\ CountOf("gpu", warnings) = 1
    /\ report.score = 45

\* C2: a failure inside a collector or the upgrade checker never propagates
\* to run_all_checks: the run is never cut short by an exception.
C2_NoFailurePropagates == reading.raised => pc # "aborted"

\* C6 as stated: the score stays within 0..100 at every point of a run.
C6_ScoreWithinZeroAndHundred == health_score >= 0 /\ health_score <= 100

\* C6 as amended: the score never exceeds 100 and has no floor at 0: the four
\* single penalties (CPU temperature, CPU usage, RAM, battery) take at most 45
\* and every disk or GPU warning takes 10 more, without limit.
C6_ScoreAtMostHundredNoFloor ==
    /\ health_score <= 100
    /\ health_score >= 55 - 10 * (CountOf("disk", warnings) + CountOf("gpu", warnings))
    /\ \A k \in {"cpu_temp", "cpu_usage", "ram", "battery"} : CountOf(k, warnings) <= 1

C6_Witness == report.shown /\ report.score < 0

\* C7: get_disk_info takes exactly 10 off the score for every enumerated
\* partition whose usage is strictly above 90%, and nothing for the others.
C7_DiskPenaltyPerPartition ==
    reading.step = "disk" =>
        Decrease = 10 * Cardinality({i \in 1..Len(reading.q.parts) :
                                        /\ reading.q.parts[i].kind = "ok"
                                        /\ reading.q.parts[i].percent > 900})

C7_Witness ==
    /\ reading.step = "disk"
    /\ Len(reading.q.parts) = 4
    /\ reading.q.parts[1] = [kind |-> "ok", percent |-> 901]
    /\ reading.q.parts[2] = [kind |-> "ok", percent |-> 900]
    /\ reading.q.parts[3] = [kind |-> "ok", percent |-> 901]
    /\ reading.q.parts[4] = [kind |-> "ok", percent |-> 901]
    /\ Decrease = 30

\* C8: the battery penalty of 10 is applied if and only if a battery exists,
\* its charge is below 30% and power is not connected (power_plugged False,
\* or None, which the code reports as 'On Battery').
C8_BatteryPenaltyIff ==
    reading.step = "battery" =>
        /\ Decrease \in {0, 10}
        /\ Decrease = 10 <=> /\ reading.q.kind = "present"
                             /\ reading.q.percent < 30
                             /\ reading.q.power_plugged \in {"False", "None"}

C8_Witness ==
    /\ reading.step = "battery"
    /\ reading.q.kind = "present"
    /\ reading.q.percent = 29
    /\ reading.q.power_plugged = "True"
    /\ Decrease = 0
    /\ pc = "gpu"

\* C9: the report's tone is decided by the final score alone: 80 and above
\* good condition, 50 to 79 needs attention, below 50 (negative included)
\* poor condition, and the colour is of the same band as the message.
C9_ToneBands ==
    report.shown =>
        /\ report.score >= 80 =>
             /\ report.message = "The system is in good condition."
             /\ report.color = "GREEN"
        /\ (report.score >= 50 /\ report.score <= 79) =>
             /\ report.message = "Some areas need attention."
             /\ report.color = "YELLOW"
        /\ report.score < 50 =>
             /\ report.message =
                  "The system is in poor condition. Professional inspection is recommended."
             /\ report.color = "RED"

C9_Witness ==
    /\ report.shown
    /\ report.score = 50
    /\ report.message = "Some areas need attention."
    /\ report.color = "YELLOW"

\* C10: get_cpu_info takes 10 off whenever the sampled utilization is above
\* 85% and 15 off whenever the core temperature is above 85 degrees, each
\* independently of the other and of whether frequency or temperature
\* information is available.
C10_CpuPenaltiesIndependent ==
    reading.step = "cpu" =>
        /\ reading.q.usage > 850 => Decrease \in {10, 25}
        /\ (reading.q.temp.kind = "value" /\ reading.q.temp.val > 85)
             => Decrease \in {15, 25}

\* the GPUs of the primary path that are over the load or temperature limit
HotGpus(gpus) ==
    {i \in 1..Len(gpus) : gpus[i].load_percent > 90 \/ gpus[i].temperature > 85}

\* C11: get_gpu_info takes 10 off for each GPU of the primary path whose load
\* is above 90% or whose temperature is above 85 degrees and for no other;
\* the fallback enumeration runs exactly when the primary path fails or finds
\* no GPU, and a run of the fallback leaves the score as it was.
C11_GpuPenaltyAndFallback ==
    reading.step = "gpu" =>
        /\ pc = "network"
        /\ Decrease = 10 * Cardinality(HotGpus(reading.q.gpu.gpus))
        /\ reading.q.fallback # "not_taken"
             <=> (~reading.q.gpu.ok \/ Len(reading.q.gpu.gpus) = 0)
        /\ reading.q.fallback # "not_taken" => Decrease = 0

\* two GPUs, the first hot by temperature alone, the second within limits
C11_Witness ==
    /\ reading.step = "gpu"
    /\ reading.q.gpu.ok
    /\ reading.q.gpu.gpus = << [load_percent |-> 90, temperature |-> 86],
                               [load_percent |-> 90, temperature |-> 85] >>
    /\ reading.q.fallback = "not_taken"
    /\ Decrease = 10

\* the partitions among `among` whose usage was read and is above 90%
FullPartitions(parts, among) ==
    {j \in among : parts[j].kind = "ok" /\ parts[j].percent > 900}

\* C12: a partition whose usage query is denied costs nothing and does not
\* end the disk check: the partitions before and after it are penalized by
\* their own usage, and get_disk_info returns to run_all_checks, which goes
\* on to the battery section.
C12_DeniedPartitionSkipped ==
    reading.step = "disk" =>
        \A i \in 1..Len(reading.q.parts) :
            reading.q.parts[i].kind = "denied" =>
                LET parts == reading.q.parts IN
                /\ pc = "battery"
                /\ Decrease =
                     10 * Cardinality(FullPartitions(parts, 1..(i - 1)))
                     + 10 * Cardinality(FullPartitions(parts, (i + 1)..Len(parts)))
                /\ Len(warnings) >= Cardinality(FullPartitions(parts, 1..Len(parts)))
                /\ \A k \in 1..Cardinality(FullPartitions(parts, 1..Len(parts))) :
                     warnings[Len(warnings) + 1 - k] = "disk"

\* a denied partition between full ones: both full ones are penalized
C12_Witness ==
    /\ reading.step = "disk"
    /\ reading.q.parts = << [kind |-> "ok", percent |-> 901],
                            [kind |-> "denied", percent |-> 0],
                            [kind |-> "ok", percent |-> 901],
                            [kind |-> "ok", percent |-> 900] >>
    /\ Decrease = 20
    /\ pc = "battery"

-----------------------------------------------------------------------------
(* Properties of the upgrade checker (UpgradeSpec)                        *)

Applicable(target) ==
    {"CPU", "RAM", "DISK"}
    \cup (IF target = "Windows 11" THEN {"SECURE_BOOT", "TPM"} ELSE {})

\* C3: once a target is selected, every applicable requirement check is
\* evaluated and reported, whatever the other checks did.
C3_EveryCheckEvaluated ==
    upgrade.outcome = "checked" =>
        \A c \in Applicable(upgrade.target) : upgrade.results[c] # "not_evaluated"

\* the hardware or firmware query of check c raised
QueryRaised(c, q) ==
    CASE c = "CPU"  -> ~q.cpu.ok
      [] c = "RAM"  -> ~q.ram.ok
      [] c = "DISK" -> ~q.disk.ok
      [] c = "SECURE_BOOT" -> ~q.fw.wmi_ok \/ q.fw.secure_boot = "raise"
      [] c = "TPM"  -> q.fw.tpm.kind = "raise"

\* C4: the verdict is 'compatible' if and only if every applicable check
\* passed, and a check whose query raised makes the verdict 'not compatible'.
C4_CompatibleIffAllPassed ==
    (reading.step = "upgrade" /\ upgrade.outcome = "checked") =>
        /\ upgrade.verdict \in {"compatible", "not_compatible"}
        /\ upgrade.verdict = "compatible"
             <=> \A c \in Applicable(upgrade.target) : upgrade.results[c] = "passed"
        /\ \A c \in Applicable(upgrade.target) :
             QueryRaised(c, reading.q) =>
                /\ upgrade.results[c] = "error"
                /\ upgrade.verdict = "not_compatible"

C4_Witness ==
    /\ reading.step = "upgrade"
    /\ upgrade.outcome = "checked"
    /\ upgrade.target = "Windows 11"
    /\ ~reading.q.disk.ok
    /\ \A c \in {"CPU", "RAM", "SECURE_BOOT", "TPM"} : upgrade.results[c] = "passed"
    /\ upgrade.verdict = "not_compatible"

\* the requirement set the specification states for a target, applied to
\* the hardware that was read
MeetsStated(q, cores, freq, ram_gb, disk_gb, firmware) ==
    /\ upgrade.results.CPU = "passed"
         <=> (q.cpu.ok /\ q.cpu.cores >= cores /\ q.cpu.freq >= freq)
    /\ upgrade.results.RAM = "passed"
         <=> (q.ram.ok /\ q.ram.total_mib >= ram_gb * 1024)
    /\ upgrade.results.DISK = "passed"
         <=> (q.disk.ok /\ q.disk.total_mib >= disk_gb * 1024)
    /\ IF firmware
         THEN /\ upgrade.results.SECURE_BOOT = "passed"
                   <=> (q.fw.wmi_ok /\ q.fw.secure_boot = "True")
              /\ upgrade.results.TPM = "passed"
                   <=> /\ q.fw.wmi_ok
                       /\ q.fw.secure_boot \in {"True", "False"}
                       /\ q.fw.tpm.kind = "str"
                       /\ Contains(<<"2", ".", "0">>, q.fw.tpm.ver)
         ELSE /\ upgrade.results.SECURE_BOOT = "not_evaluated"
              /\ upgrade.results.TPM = "not_evaluated"

MajorOf(release) == IntParse(Split(release, ".")[1]).val

BuildOf(version) == IntParse(Split(version, ".")[3]).val

=============================================================================
